---- MODULE Spec2Model ----
(***************************************************************************)
(* Study Portal (src/app.py): the persistence layer of a Streamlit app.    *)
(*                                                                         *)
(* State: the data directory exam_prep_data (users.json, one directory per *)
(* account with user_data.json and uploaded PDF files), one browser        *)
(* session (st.session_state) and the wall clock.  One action per button   *)
(* handler; every handler of a logged-in session is followed by the rest   *)
(* of the script run it triggers (main, lines 984-1018), which ends in the *)
(* periodic autosave check.                                                *)
(*                                                                         *)
(* Dictionaries are functions whose DOMAIN is the set of keys present.     *)
(* Paths are sequences of path components relative to exam_prep_data.      *)
(* A JSON text is modelled by the sequence of <<key, value>> members of    *)
(* its top-level object, in the order json.dump writes them.               *)
(***************************************************************************)
EXTENDS Integers, Sequences, FiniteSets, TLC

VARIABLES
    users_json,   \* content of exam_prep_data/users.json (a dict; {} when absent)
    dirs,         \* directories that exist under exam_prep_data
    files,        \* path -> content, the regular files under the account directories
    ss,           \* st.session_state of the browser session
    now,          \* the wall clock, in seconds
    ev            \* the handler that ran last, its inputs and what it reported

vars == <<users_json, dirs, files, ss, now, ev>>

---------------------------------------------------------------------------
(* Bounds of the model *)

MaxTime == 61
MaxItems == 1
MaxPdfs == 2
MaxSessions == 2
MaxNesting == 1
MaxVideos == 3

TickDeltas == {61}
Usernames == {"u1", "u2"}
UsernameInputs == Usernames \cup {""}
PasswordInputs == {"", "pw", "abc"}
SubjectInputs == {"", "Math"}
ListSubjects == {"Math"}
\* URLs are sequences of pieces of text; a piece is one of the characters
\* & ? # newline, or a run of other characters
ShortUrl == <<"https://", "youtu.be/", "abc123">>
WatchUrl == <<"https://www.", "youtube.com/watch", "?", "t=", "3", "&", "v=", "xyz9">>
ListUrl == <<"https://www.", "youtube.com/playlist", "?", "list=", "PL1">>
VideoUrls == {ShortUrl, WatchUrl, ListUrl, <<"not a url">>, <<"https://", "youtu.be/">>}
PlaylistUrls ==
    {ListUrl, ShortUrl, <<"https://www.", "youtube.com/playlist", "?", "list=">>,
     <<"https://example.com/", "?", "play", "list=", "PL2">>}
TitleInputs == {""}
ConfirmInputs == {"DELETE", ""}
IndexInputs == {2}

---------------------------------------------------------------------------
(* Program constants *)

AutosaveSeconds == 60
MinPasswordLen == 3
NoneTime == 0 - 1
DaySeconds == 86400

---------------------------------------------------------------------------
(* Dictionaries *)

EmptyDict == <<>>

Put(d, k, v) == [x \in DOMAIN d \cup {k} |-> IF x = k THEN v ELSE d[x]]

Del(d, k) == [x \in DOMAIN d \ {k} |-> d[x]]

RemoveAt(s, i) == [j \in 1..(Len(s) - 1) |-> IF j < i THEN s[j] ELSE s[j + 1]]

IsPrefix(p, q) == Len(p) <= Len(q) /\ SubSeq(q, 1, Len(p)) = p

---------------------------------------------------------------------------
(* JSON texts *)

TopKeys == <<"subjects", "study_sessions", "total_study_time", "last_login">>

RECURSIVE update_pairs(_, _)
update_pairs(d, pairs) ==
    IF pairs = <<>> THEN d
    ELSE update_pairs(Put(d, pairs[1][1], pairs[1][2]), Tail(pairs))

RECURSIVE members_of(_, _)
members_of(d, keys) ==
    IF keys = <<>> THEN <<>>
    ELSE IF Head(keys) \in DOMAIN d
         THEN <<(<<Head(keys), d[Head(keys)]>>)>> \o members_of(d, Tail(keys))
         ELSE members_of(d, Tail(keys))

json_dump(data) == [kind |-> "json", members |-> members_of(data, TopKeys)]

json_load(text) == update_pairs(EmptyDict, text.members)

PartialText == [kind |-> "partial"]

---------------------------------------------------------------------------
(* DataManager *)

UserDir(username) == <<username>>

DataFile(username) == <<username, "user_data.json">>

get_user_data_path(d, username) == d \cup {UserDir(username)}

save_users(users) == users

load_users(uj) == uj

get_default_user_data(t) ==
    [subjects |-> EmptyDict, study_sessions |-> <<>>,
     total_study_time |-> 0, last_login |-> t]

save_user_data(f, username, data) == Put(f, DataFile(username), json_dump(data))

load_user_data(f, username, t) ==
    IF DataFile(username) \in DOMAIN f
    THEN IF f[DataFile(username)].kind = "json"
         THEN json_load(f[DataFile(username)])
         ELSE get_default_user_data(t)
    ELSE get_default_user_data(t)

---------------------------------------------------------------------------
(* The session *)

InitSession == [logged_in |-> FALSE]

LoggedIn == ss.logged_in

Has(key) == key \in DOMAIN ss

\* render_subject_content and the PDF list of the selected subject, rendered
\* on every script run: a missing subject is a KeyError, a missing PDF file
\* makes display_pdf_viewer return False, which the caller cannot unpack.
PdfsShown(s, f, n) ==
    \A i \in 1..n :
        s.user_data.subjects[s.selected_subject].pdfs[i].path \in DOMAIN f

SubjectShown(s) ==
    /\ "selected_subject" \in DOMAIN s
    /\ s.selected_subject \in DOMAIN s.user_data.subjects

RenderOK(s, f) ==
    \/ "selected_subject" \notin DOMAIN s
    \/ /\ SubjectShown(s)
       /\ PdfsShown(s, f, Len(s.user_data.subjects[s.selected_subject].pdfs))

\* The rest of a script run of a logged-in session, after the handler:
\* render_header's default for the timer, the rendering of the selected
\* subject, and main's autosave check.
Finish(s1, d1, f1) ==
    LET s2 == IF "study_start_time" \in DOMAIN s1 THEN s1
              ELSE Put(s1, "study_start_time", NoneTime)
        s3 == IF "last_save" \in DOMAIN s2 THEN s2 ELSE Put(s2, "last_save", now)
    IN  IF ~RenderOK(s2, f1)
        THEN ss' = s2 /\ dirs' = d1 /\ files' = f1
        ELSE IF now - s3.last_save > AutosaveSeconds
             THEN /\ ss' = Put(s3, "last_save", now)
                  /\ dirs' = get_user_data_path(d1, s3.username)
                  /\ files' = save_user_data(f1, s3.username, s3.user_data)
             ELSE ss' = s3 /\ dirs' = d1 /\ files' = f1

---------------------------------------------------------------------------
(* Handlers of the login page *)

\* a registration that does not look the name up first
register_user_overwriting(username, password) ==
    /\ users_json' = save_users(Put(load_users(users_json), username,
                         [password |-> password, created_at |-> now]))
    /\ dirs' = get_user_data_path(dirs, username)
    /\ files' = save_user_data(files, username, get_default_user_data(now))
    /\ ev' = [op |-> "register", username |-> username,
              password |-> password, result |-> "ok"]

register_user(username, password) ==
    LET users == load_users(users_json)
    IN  IF username \notin DOMAIN users
        THEN /\ users_json' = save_users(Put(users, username,
                                 [password |-> password, created_at |-> now]))
             /\ dirs' = get_user_data_path(dirs, username)
             /\ files' = save_user_data(files, username, get_default_user_data(now))
             /\ ev' = [op |-> "register", username |-> username,
                       password |-> password, result |-> "ok"]
        ELSE /\ UNCHANGED <<users_json, dirs, files>>
             /\ ev' = [op |-> "register", username |-> username,
                       password |-> password, result |-> "exists"]

Register(new_username, new_password, confirm_password) ==
    /\ ~LoggedIn
    /\ IF new_username # "" /\ new_password # "" /\ confirm_password # ""
       THEN IF new_password = confirm_password
            THEN register_user(new_username, new_password)
            ELSE /\ UNCHANGED <<users_json, dirs, files>>
                 /\ ev' = [op |-> "register", username |-> new_username,
                           result |-> "mismatch"]
       ELSE /\ UNCHANGED <<users_json, dirs, files>>
            /\ ev' = [op |-> "register", username |-> new_username,
                      result |-> "missing"]
    /\ UNCHANGED <<ss, now>>

\* a login that checks the name only
login_user_by_name(username, password) ==
    username \in DOMAIN load_users(users_json)

login_user(username, password) ==
    LET users == load_users(users_json)
    IN  /\ username \in DOMAIN users
        /\ users[username].password = password

Login(username, password) ==
    /\ ~LoggedIn
    /\ IF username # "" /\ password # ""
       THEN IF login_user(username, password)
            THEN /\ Finish([logged_in |-> TRUE, username |-> username,
                            user_data |-> load_user_data(files, username, now)],
                           get_user_data_path(dirs, username), files)
                 /\ ev' = [op |-> "login", username |-> username,
                           password |-> password, result |-> "ok"]
            ELSE /\ UNCHANGED <<ss, dirs, files>>
                 /\ ev' = [op |-> "login", username |-> username,
                           password |-> password, result |-> "invalid"]
       ELSE /\ UNCHANGED <<ss, dirs, files>>
            /\ ev' = [op |-> "login", username |-> username,
                      password |-> password, result |-> "missing"]
    /\ UNCHANGED <<users_json, now>>

Logout ==
    /\ LoggedIn
    /\ ss' = InitSession
    /\ ev' = [op |-> "logout"]
    /\ UNCHANGED <<users_json, dirs, files, now>>

---------------------------------------------------------------------------
(* Handlers of a logged-in session: shared steps *)

WithData(s, data) == [s EXCEPT !["user_data"] = data]

\* data_manager.save_user_data(st.session_state.username, ...user_data) and
\* st.rerun(): the tail of every handler that changed the tree.
SaveAndRerun(s1, f1) ==
    Finish(s1, get_user_data_path(dirs, s1.username),
           save_user_data(f1, s1.username, s1.user_data))

\* A handler that reports and lets the script run on.
NoChange == Finish(ss, dirs, files)

---------------------------------------------------------------------------
(* render_header: the study timer *)

\* a start that keeps the marker of a timer that is running
StartTimer_keeping ==
    /\ LoggedIn
    /\ Has("study_start_time")
    /\ IF ss.study_start_time # NoneTime
       THEN Finish(ss, dirs, files)
       ELSE Finish(Put(ss, "study_start_time", now), dirs, files)
    /\ ev' = [op |-> "start_timer", previous |-> ss.study_start_time]
    /\ UNCHANGED <<users_json, now>>

StartTimer ==
    /\ LoggedIn
    /\ Has("study_start_time")
    /\ Finish(Put(ss, "study_start_time", now), dirs, files)
    /\ ev' = [op |-> "start_timer", previous |-> ss.study_start_time]
    /\ UNCHANGED <<users_json, now>>

\* a stop that records the session and leaves the total as it was
stop_timer_untotalled(data, started, t) ==
    [data EXCEPT
       !["study_sessions"] = Append(@, [date |-> t, duration |-> t - started])]

stop_timer(data, started, t) ==
    LET study_time == t - started
    IN  [data EXCEPT
           !["total_study_time"] = @ + study_time,
           !["study_sessions"] = Append(@, [date |-> t, duration |-> study_time])]

StopTimer ==
    /\ LoggedIn
    /\ Has("study_start_time")
    /\ IF ss.study_start_time # NoneTime
       THEN /\ Len(ss.user_data.study_sessions) < MaxSessions
            /\ SaveAndRerun(
                 Put(WithData(ss, stop_timer(ss.user_data, ss.study_start_time, now)),
                     "study_start_time", NoneTime),
                 files)
            /\ ev' = [op |-> "stop_timer", result |-> "saved",
                      duration |-> now - ss.study_start_time]
       ELSE /\ NoChange
            /\ ev' = [op |-> "stop_timer", result |-> "no_timer"]
    /\ UNCHANGED <<users_json, now>>

---------------------------------------------------------------------------
(* render_sidebar: subjects *)

new_subject_data(t) ==
    [videos |-> <<>>, playlists |-> <<>>, pdfs |-> <<>>, created_at |-> t]

add_subject(data, new_subject, t) ==
    [data EXCEPT !["subjects"] = Put(@, new_subject, new_subject_data(t))]

\* an Add Subject that does not look the name up first
AddSubject_overwriting(new_subject) ==
    /\ LoggedIn
    /\ IF new_subject # ""
       THEN /\ SaveAndRerun(WithData(ss, add_subject(ss.user_data, new_subject, now)),
                            files)
            /\ ev' = [op |-> "add_subject", subject |-> new_subject, result |-> "ok"]
       ELSE /\ NoChange
            /\ ev' = [op |-> "add_subject", subject |-> new_subject,
                      result |-> "ignored"]
    /\ UNCHANGED <<users_json, now>>

AddSubject(new_subject) ==
    /\ LoggedIn
    /\ IF new_subject # "" /\ new_subject \notin DOMAIN ss.user_data.subjects
       THEN /\ SaveAndRerun(WithData(ss, add_subject(ss.user_data, new_subject, now)),
                            files)
            /\ ev' = [op |-> "add_subject", subject |-> new_subject, result |-> "ok"]
       ELSE IF new_subject \in DOMAIN ss.user_data.subjects
            THEN /\ NoChange
                 /\ ev' = [op |-> "add_subject", subject |-> new_subject,
                           result |-> "exists"]
            ELSE /\ NoChange
                 /\ ev' = [op |-> "add_subject", subject |-> new_subject,
                           result |-> "ignored"]
    /\ UNCHANGED <<users_json, now>>

SelectSubject(subject_name) ==
    /\ LoggedIn
    /\ subject_name \in DOMAIN ss.user_data.subjects
    /\ Finish(Put(ss, "selected_subject", subject_name), dirs, files)
    /\ ev' = [op |-> "select_subject", subject |-> subject_name]
    /\ UNCHANGED <<users_json, now>>

del_sub(s, subject_name) ==
    LET s1 == WithData(s, [s.user_data EXCEPT !["subjects"] = Del(@, subject_name)])
    IN  IF "selected_subject" \in DOMAIN s1 /\ s1.selected_subject = subject_name
        THEN Del(s1, "selected_subject")
        ELSE s1

DelSub(subject_name) ==
    /\ LoggedIn
    /\ subject_name \in DOMAIN ss.user_data.subjects
    /\ SaveAndRerun(del_sub(ss, subject_name), files)
    /\ ev' = [op |-> "del_sub", subject |-> subject_name]
    /\ UNCHANGED <<users_json, now>>

---------------------------------------------------------------------------
(* render_subject_content: videos and playlists of the selected subject *)

NoId == ""

\* the characters a group ([^&\n?#]+) stops at
Delimiters == {"&", "\n", "?", "#"}

\* the text a group matches from piece i on: every piece up to a delimiter
RECURSIVE group(_, _)
group(url, i) ==
    IF i > Len(url) THEN ""
    ELSE IF url[i] \in Delimiters THEN ""
    ELSE url[i] \o group(url, i + 1)

GroupAt(url, g) == g >= 1 /\ g <= Len(url) /\ url[g] \notin Delimiters

Leftmost(S) == CHOOSE i \in S : \A j \in S : i <= j

Rightmost(S) == CHOOSE i \in S : \A j \in S : i >= j

\* (?:youtube\.com/watch\?v=|youtu\.be/|youtube\.com/embed/) matched at piece
\* i: the piece after the match, 0 when it does not match there
video_prefix(url, i) ==
    IF url[i] \in {"youtu.be/", "youtube.com/embed/"} THEN i + 1
    ELSE IF /\ url[i] = "youtube.com/watch" /\ i + 2 <= Len(url)
            /\ url[i + 1] = "?" /\ url[i + 2] = "v="
         THEN i + 3
         ELSE 0

\* youtube\.com/watch\?.*v= matched at piece i: the pieces a group can start
\* at, .* not crossing a newline
watch_groups(url, i) ==
    IF url[i] = "youtube.com/watch" /\ i + 1 <= Len(url) /\ url[i + 1] = "?"
    THEN {j + 1 : j \in {j \in (i + 2)..Len(url) :
                            /\ url[j] = "v="
                            /\ \A k \in (i + 2)..(j - 1) : url[k] # "\n"
                            /\ GroupAt(url, j + 1)}}
    ELSE {}

extract_youtube_id(url) ==
    LET first == {i \in 1..Len(url) : GroupAt(url, video_prefix(url, i))}
        second == {i \in 1..Len(url) : watch_groups(url, i) # {}}
    IN  IF first # {} THEN group(url, video_prefix(url, Leftmost(first)))
        ELSE IF second # {}
             THEN group(url, Rightmost(watch_groups(url, Leftmost(second))))
             ELSE NoId

extract_playlist_id(url) ==
    LET found == {i \in 1..Len(url) : url[i] = "list=" /\ GroupAt(url, i + 1)}
    IN  IF found # {} THEN group(url, Leftmost(found) + 1) ELSE NoId

TitleOr(title, prefix, n) ==
    IF title # "" THEN title ELSE prefix \o ToString(n + 1)

Selected == ss.selected_subject

SubjectData == ss.user_data.subjects[Selected]

WithSubject(s, subject_data) ==
    WithData(s, [s.user_data EXCEPT
                   !["subjects"] = Put(@, s.selected_subject, subject_data)])

new_video(video_id, title, url, t) ==
    [id |-> video_id, title |-> title, url |-> url, progress |-> 0,
     last_position |-> 0, added_at |-> t]

\* an Add Video that stores a record for a URL it could not read
AddVideo_partial(video_url, video_title) ==
    /\ LoggedIn
    /\ SubjectShown(ss)
    /\ Len(SubjectData.videos) < MaxVideos
    /\ SaveAndRerun(
         WithSubject(ss, [SubjectData EXCEPT !.videos =
            Append(@, new_video(extract_youtube_id(video_url),
                       TitleOr(video_title, "Video ", Len(SubjectData.videos)),
                       video_url, now))]),
         files)
    /\ ev' = [op |-> "add_video", url |-> video_url,
              result |-> IF extract_youtube_id(video_url) # NoId
                         THEN "ok" ELSE "invalid"]
    /\ UNCHANGED <<users_json, now>>

AddVideo(video_url, video_title) ==
    /\ LoggedIn
    /\ SubjectShown(ss)
    /\ LET video_id == extract_youtube_id(video_url)
       IN  IF video_id # NoId
           THEN /\ Len(SubjectData.videos) < MaxVideos
                /\ SaveAndRerun(
                     WithSubject(ss, [SubjectData EXCEPT !.videos =
                        Append(@, new_video(video_id,
                                   TitleOr(video_title, "Video ", Len(SubjectData.videos)),
                                   video_url, now))]),
                     files)
                /\ ev' = [op |-> "add_video", url |-> video_url, result |-> "ok"]
           ELSE /\ NoChange
                /\ ev' = [op |-> "add_video", url |-> video_url, result |-> "invalid"]
    /\ UNCHANGED <<users_json, now>>

new_playlist(playlist_id, title, url, t) ==
    [id |-> playlist_id, title |-> title, url |-> url, progress |-> 0,
     last_position |-> 0, index |-> 1, added_at |-> t]

AddPlaylist(playlist_url, playlist_title) ==
    /\ LoggedIn
    /\ SubjectShown(ss)
    /\ LET playlist_id == extract_playlist_id(playlist_url)
       IN  IF playlist_id # NoId
           THEN /\ Len(SubjectData.playlists) < MaxVideos
                /\ SaveAndRerun(
                     WithSubject(ss, [SubjectData EXCEPT !.playlists =
                        Append(@, new_playlist(playlist_id,
                                   TitleOr(playlist_title, "Playlist ",
                                           Len(SubjectData.playlists)),
                                   playlist_url, now))]),
                     files)
                /\ ev' = [op |-> "add_playlist", url |-> playlist_url, result |-> "ok"]
           ELSE /\ NoChange
                /\ ev' = [op |-> "add_playlist", url |-> playlist_url,
                          result |-> "invalid"]
    /\ UNCHANGED <<users_json, now>>

\* a pop that ignores the index and takes the last item
pop_last(list, index) == RemoveAt(list, Len(list))

\* vid_obj.pop(video_index), video_index counted from 0
pop(list, index) == RemoveAt(list, index + 1)

DelDialog(list_name, video_index) ==
    /\ LoggedIn
    /\ SubjectShown(ss)
    /\ video_index < Len(SubjectData[list_name])
    /\ SaveAndRerun(
         WithSubject(ss, [SubjectData EXCEPT ![list_name] = pop(@, video_index)]),
         files)
    /\ ev' = [op |-> "del_dialog", list |-> list_name, index |-> video_index]
    /\ UNCHANGED <<users_json, now>>

total_seconds(hours, minutes, seconds) ==
    IF hours # 0 THEN ((hours * 60) + minutes) * 60 + seconds
    ELSE minutes * 60 + seconds

SavePosition(video_index, hms) ==
    /\ LoggedIn
    /\ SubjectShown(ss)
    /\ video_index < Len(SubjectData.videos)
    /\ SaveAndRerun(
         WithSubject(ss, [SubjectData EXCEPT
            !.videos[video_index + 1].last_position =
                total_seconds(hms[1], hms[2], hms[3])]),
         files)
    /\ ev' = [op |-> "save_position", list |-> "videos", index |-> video_index]
    /\ UNCHANGED <<users_json, now>>

SavePlaylistPosition(playlist_idx, Index, hms) ==
    /\ LoggedIn
    /\ SubjectShown(ss)
    /\ playlist_idx < Len(SubjectData.playlists)
    /\ SaveAndRerun(
         WithSubject(ss, [SubjectData EXCEPT
            !.playlists[playlist_idx + 1].index = Index,
            !.playlists[playlist_idx + 1].last_position =
                total_seconds(hms[1], hms[2], hms[3])]),
         files)
    /\ ev' = [op |-> "save_position", list |-> "playlists", index |-> playlist_idx]
    /\ UNCHANGED <<users_json, now>>

---------------------------------------------------------------------------
(* render_subject_content: PDF documents of the selected subject *)

PdfDir(username, subject) == <<username, "pdfs", subject>>

save_pdf_file(st, username, subject, filename, file_content) ==
    [st EXCEPT
       !.d = get_user_data_path(@, username)
                \cup {<<username, "pdfs">>, PdfDir(username, subject)},
       !.f = Put(@, PdfDir(username, subject) \o <<filename>>,
                 [kind |-> "pdf", bytes |-> file_content])]

new_pdf(filename, file_path, t) ==
    [filename |-> filename, path |-> file_path, progress |-> 0,
     current_page |-> 1, total_pages |-> 0, added_at |-> t]

Filenames(pdfs) == {pdfs[i].filename : i \in 1..Len(pdfs)}

\* one round of the loop over uploaded_files; st = [s, d, f] is the session,
\* the directories and the files so far
\* an upload that does not look the filename up first
upload_one_overwriting(st, uploaded_file, t) ==
    LET subject == st.s.selected_subject
        subject_data == st.s.user_data.subjects[subject]
        file_path == PdfDir(st.s.username, subject) \o <<uploaded_file.name>>
        st1 == save_pdf_file(st, st.s.username, subject,
                             uploaded_file.name, uploaded_file.bytes)
        s1 == WithSubject(st.s, [subject_data EXCEPT !.pdfs =
                 Append(@, new_pdf(uploaded_file.name, file_path, t))])
    IN  [s |-> s1, d |-> st1.d,
         f |-> save_user_data(st1.f, s1.username, s1.user_data)]

upload_one(st, uploaded_file, t) ==
    LET subject == st.s.selected_subject
        subject_data == st.s.user_data.subjects[subject]
        file_path == PdfDir(st.s.username, subject) \o <<uploaded_file.name>>
    IN  IF uploaded_file.name \notin Filenames(subject_data.pdfs)
        THEN LET st1 == save_pdf_file(st, st.s.username, subject,
                                      uploaded_file.name, uploaded_file.bytes)
                 s1 == WithSubject(st.s, [subject_data EXCEPT !.pdfs =
                          Append(@, new_pdf(uploaded_file.name, file_path, t))])
             IN  [s |-> s1, d |-> st1.d,
                  f |-> save_user_data(st1.f, s1.username, s1.user_data)]
        ELSE st

RECURSIVE upload_all(_, _, _)
upload_all(st, uploaded_files, t) ==
    IF uploaded_files = <<>> THEN st
    ELSE upload_all(upload_one(st, Head(uploaded_files), t), Tail(uploaded_files), t)

UploadPdf(uploaded_files) ==
    /\ LoggedIn
    /\ SubjectShown(ss)
    /\ LET st == upload_all([s |-> ss, d |-> dirs, f |-> files], uploaded_files, now)
       IN  /\ Len(st.s.user_data.subjects[Selected].pdfs) <= MaxPdfs
           /\ Finish(st.s, st.d, st.f)
    /\ ev' = [op |-> "upload_pdf", uploaded |-> uploaded_files]
    /\ UNCHANGED <<users_json, now>>

del_pdf(subject_data, i) == [subject_data EXCEPT !.pdfs = pop(@, i)]

DelPdf(i) ==
    /\ LoggedIn
    /\ SubjectShown(ss)
    /\ i < Len(SubjectData.pdfs)
    /\ PdfsShown(ss, files, i + 1)
    /\ SaveAndRerun(WithSubject(ss, del_pdf(SubjectData, i)),
                    Del(files, SubjectData.pdfs[i + 1].path))
    /\ ev' = [op |-> "del_pdf", index |-> i]
    /\ UNCHANGED <<users_json, now>>

---------------------------------------------------------------------------
(* render_sidebar: export and import *)

\* an export of the bare tree, without the user_data wrapper the import reads
export_text_bare(data, t) ==
    [kind |-> "json",
     members |-> json_dump(data).members \o << <<"export_date", t>> >>]

\* json.dumps(export_data): the text offered for download
export_text(data, t) ==
    [kind |-> "json",
     members |-> << <<"user_data", json_dump(data)>>, <<"export_date", t>> >>]

Export ==
    /\ LoggedIn
    /\ NoChange
    /\ ev' = [op |-> "export", text |-> export_text(ss.user_data, now)]
    /\ UNCHANGED <<users_json, now>>

\* An uploaded text: "garbage" is no JSON at all; "json" is an object with its
\* members; "array" a list of items; "number" a scalar.
Member(text, key) ==
    \E i \in 1..Len(text.members) : text.members[i][1] = key

MemberValue(text, key) ==
    text.members[CHOOSE i \in 1..Len(text.members) :
                    /\ text.members[i][1] = key
                    /\ \A j \in (i + 1)..Len(text.members) : text.members[j][1] # key][2]

IsPair(item) == item.kind = "array" /\ Len(item.items) = 2

\* dict.update(iterable) applies the items in order and raises at the first
\* item that is no pair: the items before it stay applied.
RECURSIVE update_items(_, _)
update_items(d, items) ==
    IF items = <<>> THEN [data |-> d, raised |-> FALSE]
    ELSE IF IsPair(Head(items))
         THEN update_items(Put(d, Head(items).items[1], Head(items).items[2]),
                           Tail(items))
         ELSE [data |-> d, raised |-> TRUE]

\* a merge of the imported subjects into the live ones, subject by subject
dict_update_merging(d, value) ==
    LET merged(data) ==
            IF "subjects" \in DOMAIN d /\ "subjects" \in DOMAIN data
            THEN [data EXCEPT !["subjects"] =
                    [n \in DOMAIN d.subjects \cup DOMAIN @ |->
                        IF n \in DOMAIN @ THEN @[n] ELSE d.subjects[n]]]
            ELSE data
    IN  CASE value.kind = "json" ->
                 [data |-> merged(update_pairs(d, json_dump(json_load(value)).members)),
                  raised |-> FALSE]
          [] value.kind = "array" ->
                 [update_items(d, value.items) EXCEPT !.data = merged(@)]
          [] OTHER -> [data |-> d, raised |-> TRUE]

\* st.session_state.user_data.update(import_data['user_data'])
dict_update(d, value) ==
    CASE value.kind = "json" ->
             [data |-> update_pairs(d, json_dump(json_load(value)).members),
              raised |-> FALSE]
      [] value.kind = "array" -> update_items(d, value.items)
      [] OTHER -> [data |-> d, raised |-> TRUE]

\* the try block of the import: what it leaves in user_data and how it ends
import_data(d, uploaded_file) ==
    IF uploaded_file.kind = "garbage" \/ uploaded_file.kind = "number"
    THEN [data |-> d, result |-> "error"]
    ELSE IF uploaded_file.kind = "json" /\ Member(uploaded_file, "user_data")
         THEN LET r == dict_update(d, MemberValue(uploaded_file, "user_data"))
              IN  [data |-> r.data,
                   result |-> IF r.raised THEN "error" ELSE "ok"]
         ELSE [data |-> d, result |-> "ignored"]

Import(uploaded_file) ==
    /\ LoggedIn
    /\ LET r == import_data(ss.user_data, uploaded_file)
       IN  /\ IF r.result = "ok"
              THEN SaveAndRerun(WithData(ss, r.data), files)
              ELSE Finish(WithData(ss, r.data), dirs, files)
           /\ ev' = [op |-> "import", file |-> uploaded_file, result |-> r.result,
                     had |-> DOMAIN ss.user_data.subjects]
    /\ UNCHANGED <<users_json, now>>

---------------------------------------------------------------------------
(* A process crash inside save_user_data, here the save of AddSubject: the  *)
(* file was opened for writing (truncated) and json.dump had written none,  *)
(* part or all of the text.  A proper prefix of the text of a JSON object   *)
(* is no JSON text.  The session state dies with the process.               *)

save_user_data_crash(f, username, data, written) ==
    CASE written = "none" -> f
      [] written = "part" -> Put(f, DataFile(username), PartialText)
      [] OTHER -> save_user_data(f, username, data)

AddSubjectCrash(new_subject, written) ==
    /\ LoggedIn
    /\ new_subject # "" /\ new_subject \notin DOMAIN ss.user_data.subjects
    /\ LET data == add_subject(ss.user_data, new_subject, now)
       IN  /\ files' = save_user_data_crash(files, ss.username, data, written)
           /\ ev' = [op |-> "crash", username |-> ss.username,
                     old |-> load_user_data(files, ss.username, now),
                     new |-> data]
    /\ dirs' = get_user_data_path(dirs, ss.username)
    /\ ss' = InitSession
    /\ UNCHANGED <<users_json, now>>

---------------------------------------------------------------------------
(* profile: change of credentials and deletion of the account *)

UnderDir(p, dir) == IsPrefix(dir, p)

\* shutil.move(old_dir, new_dir) with new_dir an existing directory: the
\* source is moved INTO it, to new_dir/basename(old_dir)
move_path(p, old_dir, new_dir) ==
    IF UnderDir(p, old_dir) THEN new_dir \o p ELSE p

move_dirs(d, old_dir, new_dir) == {move_path(p, old_dir, new_dir) : p \in d}

move_files(f, old_dir, new_dir) ==
    [q \in {move_path(p, old_dir, new_dir) : p \in DOMAIN f} |->
        f[CHOOSE p \in DOMAIN f : move_path(p, old_dir, new_dir) = q]]

\* account directories moved into one another by earlier renames
Nested(p) == \A i \in 1..Len(p) : p[i] \in Usernames

MoveFits(old_dir) ==
    \A p \in dirs : (UnderDir(p, old_dir) /\ Nested(p)) => Len(p) <= MaxNesting

\* a change of credentials that leaves the entry of the old name in place
change_credentials_keeping(users, username, new_username, new_password) ==
    Put(users, new_username, [users[username] EXCEPT !.password = new_password])

change_credentials(users, username, new_username, new_password) ==
    Put(IF new_username # username THEN Del(users, username) ELSE users,
        new_username, [users[username] EXCEPT !.password = new_password])

Rename(new_username, new_password, confirm_password) ==
    /\ LoggedIn
    /\ LET username == ss.username
           users == load_users(users_json)
           d0 == get_user_data_path(dirs, username)
       IN  IF username \notin DOMAIN users
           THEN /\ UNCHANGED <<users_json, ss, files>> /\ dirs' = d0
                /\ ev' = [op |-> "rename", result |-> "not_found"]
           ELSE IF new_password # confirm_password
           THEN /\ UNCHANGED <<users_json, ss, files>> /\ dirs' = d0
                /\ ev' = [op |-> "rename", result |-> "mismatch"]
           ELSE IF Len(new_password) < MinPasswordLen
           THEN /\ UNCHANGED <<users_json, ss, files>> /\ dirs' = d0
                /\ ev' = [op |-> "rename", result |-> "short"]
           ELSE IF new_username # username /\ new_username \in DOMAIN users
           THEN /\ UNCHANGED <<users_json, ss, files>> /\ dirs' = d0
                /\ ev' = [op |-> "rename", result |-> "exists"]
           ELSE IF new_username = ""
           THEN \* new_dir is exam_prep_data itself, which holds old_dir:
                \* shutil.move raises "Destination path already exists"
                /\ UNCHANGED <<users_json, ss, files>> /\ dirs' = d0
                /\ ev' = [op |-> "rename", result |-> "raised"]
           ELSE IF new_username # username
                   /\ (UserDir(new_username) \o UserDir(username)) \in
                          (dirs \cup DOMAIN files)
           THEN /\ UNCHANGED <<users_json, ss, files>>
                /\ dirs' = get_user_data_path(d0, new_username)
                /\ ev' = [op |-> "rename", result |-> "raised"]
           ELSE /\ new_username # username => MoveFits(UserDir(username))
                /\ users_json' = save_users(change_credentials(
                                     users, username, new_username, new_password))
                /\ IF new_username # username
                   THEN Finish([ss EXCEPT !["username"] = new_username],
                               move_dirs(get_user_data_path(d0, new_username),
                                         UserDir(username), UserDir(new_username)),
                               move_files(files, UserDir(username),
                                          UserDir(new_username)))
                   ELSE Finish(ss, d0, files)
                /\ ev' = [op |-> "rename", result |-> "ok", old |-> username,
                          new |-> new_username, password |-> new_password,
                          stored |-> load_user_data(files, username, now)]
    /\ UNCHANGED now

\* shutil.move across file systems copies the tree before it removes the
\* source: the state between the two
copy_dirs(d, old_dir, new_dir) == d \cup move_dirs(d, old_dir, new_dir)

copy_files(f, old_dir, new_dir) ==
    [q \in DOMAIN f \cup DOMAIN move_files(f, old_dir, new_dir) |->
        IF q \in DOMAIN f THEN f[q] ELSE move_files(f, old_dir, new_dir)[q]]

\* Save Changes to another username, interrupted: the process dies, or
\* (alive) an exception ends the script run and the session goes on.  stage
\* is how far the handler got: "mkdir" after get_user_data_path(new_username),
\* "copied" inside shutil.move, "moved" after it, "users_part" inside
\* save_users (the file truncated or partly written: load_users reads {}),
\* "saved" after save_users and before the session takes the new name.
RenameCrash(new_username, new_password, stage, alive) ==
    /\ LoggedIn
    /\ LET username == ss.username
           users == load_users(users_json)
           old_dir == UserDir(username)
           new_dir == UserDir(new_username)
           d0 == get_user_data_path(get_user_data_path(dirs, username), new_username)
       IN  /\ username \in DOMAIN users
           /\ Len(new_password) >= MinPasswordLen
           /\ new_username # username /\ new_username # ""
           /\ new_username \notin DOMAIN users
           /\ (new_dir \o old_dir) \notin (dirs \cup DOMAIN files)
           /\ MoveFits(old_dir)
           /\ stage = "saved" => ~alive
           /\ dirs' = CASE stage = "mkdir" -> d0
                        [] stage = "copied" -> copy_dirs(d0, old_dir, new_dir)
                        [] OTHER -> move_dirs(d0, old_dir, new_dir)
           /\ files' = CASE stage = "mkdir" -> files
                         [] stage = "copied" -> copy_files(files, old_dir, new_dir)
                         [] OTHER -> move_files(files, old_dir, new_dir)
           /\ users_json' =
                 CASE stage = "users_part" -> EmptyDict
                   [] stage = "saved" ->
                        save_users(change_credentials(users, username,
                                                      new_username, new_password))
                   [] OTHER -> users_json
           /\ ev' = [op |-> "rename_crash", old |-> username, new |-> new_username,
                     stage |-> stage, alive |-> alive,
                     stored |-> load_user_data(files, username, now)]
    /\ ss' = IF alive THEN ss ELSE InitSession
    /\ UNCHANGED now

RenameStages == {"mkdir", "copied", "moved", "users_part", "saved"}

\* a deletion that leaves the account's directory in place
rmtree_skipped(paths, user_dir) == paths

rmtree(paths, user_dir) == {p \in paths : ~UnderDir(p, user_dir)}

DeleteUser(confirm_text) ==
    /\ LoggedIn
    /\ ss.username \in DOMAIN load_users(users_json)
    /\ IF confirm_text = "DELETE"
       THEN /\ dirs' = rmtree(dirs, UserDir(ss.username))
            /\ files' = [p \in rmtree(DOMAIN files, UserDir(ss.username)) |-> files[p]]
            /\ users_json' = save_users(Del(load_users(users_json), ss.username))
            /\ ss' = InitSession
            /\ ev' = [op |-> "delete", username |-> ss.username, result |-> "ok",
                      removed |-> {p \in dirs \cup DOMAIN files :
                                      UnderDir(p, UserDir(ss.username))}]
       ELSE /\ dirs' = get_user_data_path(dirs, ss.username)
            /\ UNCHANGED <<users_json, files, ss>>
            /\ ev' = [op |-> "delete", username |-> ss.username,
                      result |-> "unconfirmed"]
    /\ UNCHANGED now

---------------------------------------------------------------------------
(* Time and script runs without a handler *)

TickUpTo(limit) ==
    /\ \E d \in TickDeltas : now + d <= limit /\ now' = now + d
    /\ ev' = [op |-> "tick"]
    /\ UNCHANGED <<users_json, dirs, files, ss>>

Tick == TickUpTo(MaxTime)

\* the clock of a session that began one second before midnight
Evening == DaySeconds - 1

TickNight == TickUpTo(Evening + MaxTime)

---------------------------------------------------------------------------
(* render_analytics_dashboard: the daily study time, read from the tree *)

\* sessions_df['date'].dt.date of a time in seconds
date_of(t) == t \div DaySeconds

\* duration / 60, kept as a fraction
duration_minutes(session) == [num |-> session.duration, den |-> 60]

RECURSIVE sum_minutes(_, _)
sum_minutes(sessions, day) ==
    IF sessions = <<>> THEN [num |-> 0, den |-> 60]
    ELSE LET rest == sum_minutes(Tail(sessions), day)
         IN  IF date_of(Head(sessions).date) = day
             THEN [rest EXCEPT !.num = @ + duration_minutes(Head(sessions)).num]
             ELSE rest

\* groupby(date).sum(): one row per date that has a session
daily_study(sessions) ==
    [day \in {date_of(sessions[i].date) : i \in 1..Len(sessions)} |->
        sum_minutes(sessions, day)]

Rerun ==
    /\ LoggedIn
    /\ Finish(ss, dirs, files)
    /\ ev' = [op |-> "rerun"]
    /\ UNCHANGED <<users_json, now>>

---------------------------------------------------------------------------
(* Inputs *)

PdfBytes == {"b1", "b2"}

Uploads ==
    {<<[name |-> "a.pdf", bytes |-> b]>> : b \in PdfBytes}
    \cup {<<[name |-> "b.pdf", bytes |-> "b1"]>>,
          <<[name |-> "a.pdf", bytes |-> "b1"], [name |-> "a.pdf", bytes |-> "b2"]>>}

ImportedSubjects == "Bio" :> new_subject_data(0)

ImportedSession == [date |-> 0, duration |-> 61]

SubjectsMember == <<"subjects", ImportedSubjects>>

SessionsMember == <<"study_sessions", <<ImportedSession>> >>

TotalMember == <<"total_study_time", 61>>

LastLoginMember == <<"last_login", 0>>

ImportMemberSeqs ==
    {<<SubjectsMember>>, <<SessionsMember>>, <<TotalMember>>, <<LastLoginMember>>,
     <<SessionsMember, TotalMember>>}

Upload(value) ==
    [kind |-> "json", members |-> << <<"user_data", value>>, <<"export_date", 0>> >>]

PairItem(m) == [kind |-> "array", items |-> m]

ImportFiles ==
    {[kind |-> "garbage"], [kind |-> "number"],
     [kind |-> "json", members |-> << <<"export_date", 0>> >>],
     Upload([kind |-> "number"])}
    \cup {Upload([kind |-> "json", members |-> ms]) : ms \in ImportMemberSeqs}
    \cup {Upload([kind |-> "array", items |-> <<PairItem(LastLoginMember)>>])}
    \cup {Upload([kind |-> "array", items |-> <<PairItem(m), [kind |-> "number"]>>]) :
             m \in {SubjectsMember, TotalMember}}

---------------------------------------------------------------------------
(* The account u1/pw as Register("u1", "pw", "pw") leaves it at time 0 *)

InitRegistered ==
    /\ users_json = ("u1" :> [password |-> "pw", created_at |-> 0])
    /\ dirs = {UserDir("u1")}
    /\ files = (DataFile("u1") :> json_dump(get_default_user_data(0)))
    /\ ss = InitSession
    /\ now = 0
    /\ ev = [op |-> "register", username |-> "u1", password |-> "pw", result |-> "ok"]

Init ==
    /\ users_json = EmptyDict
    /\ dirs = {}
    /\ files = EmptyDict
    /\ ss = InitSession
    /\ now = 0
    /\ ev = [op |-> "init"]

\* the study ledger, the subjects and import/export of one account
Next ==
    \/ \E p \in {"pw", "abc"} : Login("u1", p)
    \/ Logout
    \/ StartTimer
    \/ StopTimer
    \/ \E n \in SubjectInputs : AddSubject(n)
    \/ \E n \in SubjectInputs : SelectSubject(n)
    \/ \E n \in SubjectInputs : DelSub(n)
    \/ Export
    \/ \E file \in ImportFiles : Import(file)
    \/ \E n \in SubjectInputs, w \in {"none", "part", "all"} : AddSubjectCrash(n, w)
    \/ Tick
    \/ Rerun

Spec == InitRegistered /\ [][Next]_vars

\* the list of the selected subject has fewer than n items
ListBelow(list_name, n) == SubjectShown(ss) => Len(SubjectData[list_name]) < n

\* Add Video and Add Playlist while the list has fewer than MaxItems items
AddVideoBelow(video_url, video_title) ==
    /\ extract_youtube_id(video_url) # NoId => ListBelow("videos", MaxItems)
    /\ AddVideo(video_url, video_title)

AddPlaylistBelow(playlist_url, playlist_title) ==
    /\ extract_playlist_id(playlist_url) # NoId => ListBelow("playlists", MaxItems)
    /\ AddPlaylist(playlist_url, playlist_title)

\* the subjects with their videos and playlists
NextContent ==
    \/ Login("u1", "pw")
    \/ \E n \in SubjectInputs : AddSubject(n)
    \/ \E n \in SubjectInputs : SelectSubject(n)
    \/ \E n \in SubjectInputs : DelSub(n)
    \/ \E u \in VideoUrls \ {WatchUrl}, t \in TitleInputs : AddVideoBelow(u, t)
    \/ \E u \in PlaylistUrls, t \in TitleInputs : AddPlaylistBelow(u, t)
    \/ \E l \in {"videos", "playlists"}, i \in 0..(MaxItems - 1) : DelDialog(l, i)
    \/ SavePosition(0, <<0, 1, 5>>)
    \/ \E x \in IndexInputs : SavePlaylistPosition(0, x, <<1, 0, 0>>)
    \/ UploadPdf(<<[name |-> "a.pdf", bytes |-> "b1"]>>)
    \/ Tick
    \/ Rerun

ContentSpec == InitRegistered /\ [][NextContent]_vars

\* the subjects with their PDF documents
NextDoc ==
    \/ Login("u1", "pw")
    \/ \E n \in SubjectInputs : AddSubject(n)
    \/ \E n \in SubjectInputs : SelectSubject(n)
    \/ \E n \in SubjectInputs : DelSub(n)
    \/ \E up \in Uploads : UploadPdf(up)
    \/ \E i \in 0..(MaxPdfs - 1) : DelPdf(i)
    \/ Tick
    \/ Rerun

DocSpec == InitRegistered /\ [][NextDoc]_vars

\* The account u1/pw registered at time 0, the clock one second before the
\* next midnight
InitEvening ==
    /\ users_json = ("u1" :> [password |-> "pw", created_at |-> 0])
    /\ dirs = {UserDir("u1")}
    /\ files = (DataFile("u1") :> json_dump(get_default_user_data(0)))
    /\ ss = InitSession
    /\ now = Evening
    /\ ev = [op |-> "tick"]

\* the study timer around midnight
NextLedger ==
    \/ Login("u1", "pw")
    \/ Logout
    \/ StartTimer
    \/ StopTimer
    \/ \E n \in SubjectInputs : AddSubject(n)
    \/ Export
    \/ TickNight
    \/ Rerun

LedgerSpec == InitEvening /\ [][NextLedger]_vars

\* The account u1/pw after Register, Add Subject "Bio", Add Video and Add
\* Playlist in it, all at time 0, and Log Out
BioTree ==
    [add_subject(get_default_user_data(0), "Bio", 0) EXCEPT
       !.subjects["Bio"].videos = <<new_video("abc123", "Video 1", ShortUrl, 0)>>,
       !.subjects["Bio"].playlists = <<new_playlist("PL1", "Playlist 1", ListUrl, 0)>>]

InitList ==
    /\ users_json = ("u1" :> [password |-> "pw", created_at |-> 0])
    /\ dirs = {UserDir("u1")}
    /\ files = (DataFile("u1") :> json_dump(BioTree))
    /\ ss = InitSession
    /\ now = 0
    /\ ev = [op |-> "logout"]

\* the videos and playlists of one subject beside another subject, lists of
\* up to MaxVideos items
NextList ==
    \/ Login("u1", "pw")
    \/ \E n \in ListSubjects : AddSubject(n)
    \/ \E n \in ListSubjects : SelectSubject(n)
    \/ \E u \in {ShortUrl, WatchUrl}, t \in TitleInputs : AddVideo(u, t)
    \/ \E t \in TitleInputs : AddPlaylist(ListUrl, t)
    \/ \E l \in {"videos", "playlists"}, i \in 0..(MaxVideos - 1) : DelDialog(l, i)

ListSpec == InitList /\ [][NextList]_vars

\* the accounts
NextAccount ==
    \/ \E u \in UsernameInputs, p \in PasswordInputs, c \in PasswordInputs :
           Register(u, p, c)
    \/ \E u \in UsernameInputs, p \in PasswordInputs : Login(u, p)
    \/ Logout
    \/ \E u \in UsernameInputs, p \in PasswordInputs, c \in PasswordInputs :
           Rename(u, p, c)
    \/ \E c \in ConfirmInputs : DeleteUser(c)
    \/ \E n \in SubjectInputs : AddSubject(n)
    \/ \E n \in SubjectInputs : SelectSubject(n)
    \/ UploadPdf(<<[name |-> "a.pdf", bytes |-> "b1"]>>)
    \/ Tick
    \/ Rerun

AccountSpec == Init /\ [][NextAccount]_vars

\* changes of the username, completed and interrupted
NextRename ==
    \/ \E u \in Usernames \cup {"u3"} : Register(u, "pw", "pw")
    \/ \E u \in Usernames, p \in {"pw", "abc"} : Login(u, p)
    \/ Logout
    \/ \E u \in Usernames : Rename(u, "abc", "abc")
    \/ \E u \in Usernames, stage \in RenameStages, alive \in BOOLEAN :
           RenameCrash(u, "abc", stage, alive)
    \/ AddSubject("Math")
    \/ Rerun

RenameSpec == Init /\ [][NextRename]_vars

---------------------------------------------------------------------------
(* Properties *)

RECURSIVE SumDurations(_)
SumDurations(sessions) ==
    IF sessions = <<>> THEN 0
    ELSE Head(sessions).duration + SumDurations(Tail(sessions))

\* C1: in every state of a logged-in session, total_study_time is the sum of
\* the durations of the events in study_sessions.
C1_TotalIsSumOfDurations ==
    LoggedIn =>
        ss.user_data.total_study_time = SumDurations(ss.user_data.study_sessions)

\* C2: after a crash inside a save, loading the account's snapshot gives the
\* snapshot saved before or the snapshot being saved, never the default tree
\* in place of a partly written file.
C2_CrashLeavesOldOrNew ==
    ev.op = "crash" =>
        load_user_data(files, ev.username, now) \in {ev.old, ev.new}

\* C3: an import that fails leaves the tree in memory and the files as they
\* were before it.
C3_FailedImportChangesNothing ==
    [][(ev'.op = "import" /\ ev'.result = "error")
          => (ss'.user_data = ss.user_data /\ files' = files)]_vars

\* the tree an uploaded text carries under user_data, as a dict
ImportedTree(uploaded_file) ==
    LET value == MemberValue(uploaded_file, "user_data")
    IN  IF value.kind = "json" THEN json_load(value)
        ELSE [k \in {value.items[i].items[1] : i \in 1..Len(value.items)} |->
                value.items[CHOOSE i \in 1..Len(value.items) :
                    /\ value.items[i].items[1] = k
                    /\ \A j \in (i + 1)..Len(value.items) :
                          value.items[j].items[1] # k].items[2]]

\* C4: a successful import sets exactly the top-level keys of the imported
\* tree to the imported values and leaves every other key of the live tree
\* as it was; an imported subjects mapping replaces the live one whole.
C4_ImportReplacesByKey ==
    [][(ev'.op = "import" /\ ev'.result = "ok") =>
          LET imported == ImportedTree(ev'.file)
          IN  /\ DOMAIN ss'.user_data = DOMAIN ss.user_data \cup DOMAIN imported
              /\ \A k \in DOMAIN ss'.user_data :
                    IF k \in DOMAIN imported
                    THEN ss'.user_data[k] = imported[k]
                    ELSE ss'.user_data[k] = ss.user_data[k]]_vars

C4_Witness ==
    /\ ev.op = "import" /\ ev.result = "ok"
    /\ "subjects" \in DOMAIN ImportedTree(ev.file)
    /\ ev.had = {"Math"}
    /\ DOMAIN ss.user_data.subjects = {"Bio"}

\* C5: the text Export produces, imported into a fresh default tree, gives a
\* tree equal to the exported one in subjects, study_sessions,
\* total_study_time and last_login.
C5_ExportImportRoundTrip ==
    ev.op = "export" =>
        LET r == import_data(get_default_user_data(now), ev.text)
        IN  /\ r.result = "ok"
            /\ \A i \in 1..Len(TopKeys) :
                  r.data[TopKeys[i]] = ss.user_data[TopKeys[i]]

C5_Witness ==
    /\ ev.op = "export"
    /\ ss.user_data.subjects # EmptyDict
    /\ ss.user_data.study_sessions # <<>>
    /\ ss.user_data.total_study_time > 0
    /\ ss.user_data.last_login # now

MutatingOps ==
    {"add_subject", "del_sub", "add_video", "add_playlist", "del_dialog",
     "save_position", "upload_pdf", "del_pdf", "stop_timer", "import"}

\* C6: after every completed mutating operation the snapshot on disk of the
\* logged-in account equals the tree in memory.
C6_PersistedEqualsMemory ==
    (/\ LoggedIn
     /\ ev.op \in MutatingOps
     /\ "result" \in DOMAIN ev => ev.result \in {"ok", "saved", "error"})
    => /\ DataFile(ss.username) \in DOMAIN files
       /\ files[DataFile(ss.username)] = json_dump(ss.user_data)

UnchangedOnDisk(username) ==
    /\ (DataFile(username) \in DOMAIN files') = (DataFile(username) \in DOMAIN files)
    /\ DataFile(username) \in DOMAIN files =>
          files'[DataFile(username)] = files[DataFile(username)]

\* C7: register on a name in users.json fails and leaves its password,
\* created_at and snapshot as they were; register on an absent name succeeds
\* and leaves the record and an empty default snapshot on disk.
C7_Register ==
    [][(ev'.op = "register" /\ ev'.result \in {"ok", "exists"}) =>
          IF ev'.username \in DOMAIN users_json
          THEN /\ ev'.result = "exists"
               /\ users_json'[ev'.username] = users_json[ev'.username]
               /\ UnchangedOnDisk(ev'.username)
          ELSE /\ ev'.result = "ok"
               /\ ev'.username \in DOMAIN users_json'
               /\ users_json'[ev'.username].password = ev'.password
               /\ DataFile(ev'.username) \in DOMAIN files'
               /\ files'[DataFile(ev'.username)].kind = "json"
               /\ LET data == json_load(files'[DataFile(ev'.username)])
                  IN  /\ data.subjects = EmptyDict
                      /\ data.study_sessions = <<>>
                      /\ data.total_study_time = 0]_vars

C7_Witness ==
    /\ ev.op = "register" /\ ev.result = "exists"
    /\ ev.password # users_json[ev.username].password
    /\ load_user_data(files, ev.username, now).subjects # EmptyDict

\* C8: a login succeeds exactly when the name is in users.json with the
\* password given; an unknown name and a wrong password report the same, and
\* a failed login leaves the session as it was.
C8_Authenticate ==
    [][ev'.op = "login" =>
          /\ (ev'.result = "ok") <=>
                (/\ ev'.username \in DOMAIN users_json
                 /\ users_json[ev'.username].password = ev'.password)
          /\ (ev'.result # "ok" /\ ev'.username # "" /\ ev'.password # "")
                => ev'.result = "invalid"
          /\ ev'.result # "ok" => ss' = ss
          /\ ev'.result = "ok" => (ss'.logged_in /\ ss'.username = ev'.username)]_vars

\* a login with the password of before a rename, under the new name
C8_Witness ==
    /\ ev.op = "login" /\ ev.result = "invalid"
    /\ ev.username \in DOMAIN users_json
    /\ ev.password = "pw"
    /\ \E old \in Usernames : UserDir(ev.username) \o UserDir(old) \in dirs

\* C9: after a successful rename to another name, the snapshot loaded for
\* the new name is the one stored for the old name before, users.json holds
\* the new name with the new password and not the old name, and nothing is
\* left under the old name's directory.
C9_RenameMovesTree ==
    (ev.op = "rename" /\ ev.result = "ok" /\ ev.new # ev.old) =>
        /\ load_user_data(files, ev.new, now) = ev.stored
        /\ ev.new \in DOMAIN users_json
        /\ users_json[ev.new].password = ev.password
        /\ ev.old \notin DOMAIN users_json
        /\ \A p \in dirs \cup DOMAIN files : ~UnderDir(p, UserDir(ev.old))

\* C10: a successful delete leaves the name out of users.json and no
\* directory or file under its directory, and a login under a name that is
\* not in users.json fails.
C10_Delete ==
    [][/\ (ev'.op = "delete" /\ ev'.result = "ok") =>
             /\ ev'.username \notin DOMAIN users_json'
             /\ \A p \in dirs' \cup DOMAIN files' : ~UnderDir(p, UserDir(ev'.username))
             /\ ~ss'.logged_in
       /\ (ev'.op = "login" /\ ev'.username \notin DOMAIN users_json)
             => ev'.result # "ok"]_vars

\* the deleted account had a snapshot and a document file, another account stays
C10_Witness ==
    /\ ev.op = "delete" /\ ev.result = "ok"
    /\ DataFile(ev.username) \in ev.removed
    /\ \E p \in ev.removed : Len(p) = 4 /\ p[2] = "pdfs"
    /\ users_json # EmptyDict

\* C11: Add Subject with a name that is a key of subjects reports "already
\* exists" and leaves the subjects mapping as it was, every subject with its
\* videos, playlists and pdfs; with a new non-empty name it inserts a subject
\* whose videos, playlists and pdfs are empty and leaves the others alone.
C11_AddSubject ==
    [][ev'.op = "add_subject" =>
          LET before == ss.user_data.subjects
              after == ss'.user_data.subjects
          IN  IF ev'.subject \in DOMAIN before
              THEN ev'.result = "exists" /\ after = before
              ELSE IF ev'.subject # ""
              THEN /\ ev'.result = "ok"
                   /\ DOMAIN after = DOMAIN before \cup {ev'.subject}
                   /\ after[ev'.subject].videos = <<>>
                   /\ after[ev'.subject].playlists = <<>>
                   /\ after[ev'.subject].pdfs = <<>>
                   /\ \A m \in DOMAIN before : after[m] = before[m]
              ELSE after = before]_vars

\* Add Subject refused for a subject that has a video, a playlist and a pdf
C11_Witness ==
    /\ ev.op = "add_subject" /\ ev.result = "exists"
    /\ ss.user_data.subjects[ev.subject].videos # <<>>
    /\ ss.user_data.subjects[ev.subject].playlists # <<>>
    /\ ss.user_data.subjects[ev.subject].pdfs # <<>>

ItemLists == {"videos", "playlists", "pdfs"}

\* C13: deleting the item at index i (from 0) of the videos or playlists of
\* the selected subject leaves that list one item shorter, the items before i
\* in place and the items after i moved down by one, and changes no other
\* list of any subject, the set of subjects or the study sessions.
C13_DeleteAtIndex ==
    [][ev'.op = "del_dialog" =>
          LET subject == ss.selected_subject
              before == ss.user_data.subjects
              after == ss'.user_data.subjects
              old == before[subject][ev'.list]
              new == after[subject][ev'.list]
          IN  /\ ev'.index >= 0 /\ ev'.index < Len(old)
              /\ Len(new) = Len(old) - 1
              /\ \A j \in 1..Len(new) :
                    new[j] = IF j <= ev'.index THEN old[j] ELSE old[j + 1]
              /\ DOMAIN after = DOMAIN before
              /\ \A n \in DOMAIN before : \A l \in ItemLists :
                    (n # subject \/ l # ev'.list) => after[n][l] = before[n][l]
              /\ ss'.user_data.study_sessions = ss.user_data.study_sessions]_vars

\* the middle one of three videos was deleted; the two left differ, the
\* subject has a playlist and the other subject has its video and playlist
C13_Witness ==
    /\ ev.op = "del_dialog" /\ ev.list = "videos" /\ ev.index = 1
    /\ LoggedIn /\ SubjectShown(ss)
    /\ Len(SubjectData.videos) = 2
    /\ SubjectData.videos[1].id # SubjectData.videos[2].id
    /\ SubjectData.playlists # <<>>
    /\ Selected # "Bio"
    /\ ss.user_data.subjects["Bio"].videos # <<>>

DistinctFilenames ==
    LoggedIn =>
        \A n \in DOMAIN ss.user_data.subjects :
            LET pdfs == ss.user_data.subjects[n].pdfs
            IN  \A i, j \in 1..Len(pdfs) :
                    i # j => pdfs[i].filename # pdfs[j].filename

\* C14: an upload under a filename the selected subject already has appends
\* no record and leaves the stored file as it was; an upload changes no
\* record already there and appends one record per new filename; and after
\* every step the filenames of the pdfs of each subject are pairwise distinct.
C14_DuplicateUploadSkipped ==
    [][/\ ev'.op = "upload_pdf" =>
             LET subject == ss.selected_subject
                 old == ss.user_data.subjects[subject].pdfs
                 new == ss'.user_data.subjects[subject].pdfs
                 names == {ev'.uploaded[k].name : k \in 1..Len(ev'.uploaded)}
             IN  /\ Len(new) >= Len(old)
                 /\ SubSeq(new, 1, Len(old)) = old
                 /\ Len(new) - Len(old) = Cardinality(names \ Filenames(old))
                 /\ \A i \in 1..Len(old) :
                       /\ (old[i].path \in DOMAIN files') = (old[i].path \in DOMAIN files)
                       /\ old[i].path \in DOMAIN files =>
                             files'[old[i].path] = files[old[i].path]
       /\ DistinctFilenames']_vars

\* a.pdf uploaded again with other bytes beside b.pdf: two records, the file
\* of a.pdf holds the bytes of the first upload
C14_Witness ==
    /\ ev.op = "upload_pdf"
    /\ LoggedIn /\ SubjectShown(ss)
    /\ Filenames(SubjectData.pdfs) = {"a.pdf", "b.pdf"}
    /\ \E i \in 1..Len(SubjectData.pdfs) :
          /\ SubjectData.pdfs[i].filename = ev.uploaded[1].name
          /\ SubjectData.pdfs[i].path \in DOMAIN files
          /\ files[SubjectData.pdfs[i].path].bytes # ev.uploaded[1].bytes

\* C15: after a subject was deleted it is no key of subjects and no file is
\* left in the directory of its documents, so a subject added later under the
\* same name finds no stored document file.
C15_DelSubRemovesFiles ==
    (LoggedIn /\ ev.op \in {"del_sub", "add_subject"}) =>
        /\ ev.op = "del_sub" => ev.subject \notin DOMAIN ss.user_data.subjects
        /\ (ev.op = "del_sub" \/ ev.result = "ok") =>
              \A p \in DOMAIN files :
                  ~UnderDir(p, PdfDir(ss.username, ev.subject))

\* C16: Stop Timer with a timer running appends one event to study_sessions
\* whose duration is the time since the recorded start, raises
\* total_study_time by that duration, writes the snapshot and clears the
\* timer; with no timer running it changes neither study_sessions nor
\* total_study_time; a stop right after a stop records nothing.
C16_StopTimer ==
    [][ev'.op = "stop_timer" =>
          LET old == ss.user_data
              new == ss'.user_data
          IN  /\ IF ss.study_start_time # NoneTime
                 THEN /\ ev'.result = "saved"
                      /\ Len(new.study_sessions) = Len(old.study_sessions) + 1
                      /\ SubSeq(new.study_sessions, 1, Len(old.study_sessions))
                            = old.study_sessions
                      /\ new.study_sessions[Len(new.study_sessions)].duration
                            = now - ss.study_start_time
                      /\ new.total_study_time
                            = old.total_study_time + (now - ss.study_start_time)
                      /\ files'[DataFile(ss.username)] = json_dump(new)
                      /\ ss'.study_start_time = NoneTime
                 ELSE /\ ev'.result = "no_timer"
                      /\ new.study_sessions = old.study_sessions
                      /\ new.total_study_time = old.total_study_time
              /\ ev.op = "stop_timer" => new.study_sessions = old.study_sessions]_vars

\* the second session of the account, 61 seconds long, was just recorded
C16_Witness ==
    /\ ev.op = "stop_timer" /\ ev.result = "saved" /\ ev.duration = 61
    /\ Len(ss.user_data.study_sessions) = 2
    /\ ss.user_data.study_sessions[1].duration = 0

\* C17: study_sessions only grows at its end: over every step of a logged-in
\* session the sequence before the step is a prefix of the sequence after it,
\* every earlier event with its date and duration.
C17_AppendOnly ==
    [][(ss.logged_in /\ ss'.logged_in) =>
          IsPrefix(ss.user_data.study_sessions, ss'.user_data.study_sessions)]_vars

\* the minutes daily_study shows for a day, 0 for a day without a row
MinutesOn(sessions, day) ==
    IF day \in DOMAIN daily_study(sessions) THEN daily_study(sessions)[day].num
    ELSE 0

\* C18: a session just recorded adds its whole duration to the daily total
\* of the date on which its timer was started and nothing to the total of
\* any other date, the date of the stop included.
C18_DailyTotalsByStartDate ==
    (LoggedIn /\ ev.op = "stop_timer" /\ ev.result = "saved") =>
        LET sessions == ss.user_data.study_sessions
            before == SubSeq(sessions, 1, Len(sessions) - 1)
            started == now - ev.duration
        IN  \A day \in {date_of(started), date_of(now)} :
                MinutesOn(sessions, day) - MinutesOn(before, day)
                    = IF day = date_of(started) THEN ev.duration ELSE 0

\* the directories get_user_data_path resolves two names to have a path in
\* common
SharedUnit(a, b) ==
    \/ UnderDir(UserDir(a), UserDir(b))
    \/ UnderDir(UserDir(b), UserDir(a))
    \/ \E p \in dirs \cup DOMAIN files :
          UnderDir(p, UserDir(a)) /\ UnderDir(p, UserDir(b))

\* C19: a change of username interrupted at any stage, by the death of the
\* process or by an exception, leaves users.json without the old and the new
\* name both in it, and no two names of users.json resolve to directories
\* that share a path.
C19_InterruptedRename ==
    ev.op = "rename_crash" =>
        /\ ~(ev.old \in DOMAIN users_json /\ ev.new \in DOMAIN users_json)
        /\ \A a, b \in DOMAIN users_json : a # b => ~SharedUnit(a, b)

\* the tree with a subject was moved, users.json still holds the old name
\* beside another account
C19_Witness ==
    /\ ev.op = "rename_crash" /\ ev.stage = "moved"
    /\ ev.stored.subjects # EmptyDict
    /\ DOMAIN users_json = {ev.old, "u3"}
    /\ DataFile(ev.old) \notin DOMAIN files
    /\ (UserDir(ev.new) \o DataFile(ev.old)) \in DOMAIN files

\* C20: Start Study Timer, with a timer running or not, sets the start marker
\* to the time of the click and leaves study_sessions, total_study_time and
\* the rest of the tree as they were; no other step of the session but a
\* stop changes the marker; and the stop that follows records the time since
\* the marker, that is since the latest start.
C20_RestartOverwrites ==
    [][/\ ev'.op = "start_timer" =>
             /\ ss'.user_data = ss.user_data
             /\ ss'.study_start_time = now
       /\ (ss.logged_in /\ ss'.logged_in /\ ev'.op \notin {"start_timer", "stop_timer"})
             => ss'.study_start_time = ss.study_start_time
       /\ (ev'.op = "stop_timer" /\ ss.study_start_time # NoneTime) =>
             LET sessions == ss'.user_data.study_sessions
             IN  /\ Len(sessions) = Len(ss.user_data.study_sessions) + 1
                 /\ sessions[Len(sessions)].duration = now - ss.study_start_time
                 /\ ss'.user_data.total_study_time
                       = ss.user_data.total_study_time + (now - ss.study_start_time)]_vars

\* a timer started at 0 was started again at 61, nothing recorded
C20_Witness ==
    /\ ev.op = "start_timer" /\ ev.previous = 0
    /\ ss.study_start_time = 61
    /\ ss.user_data.study_sessions = <<>>

\* C21: in every state of a logged-in session the selected subject, when
\* there is one, is a key of the subjects of the tree in memory, so
\* render_subject_content finds the subject it looks up.
C21_SelectedSubjectExists ==
    (LoggedIn /\ "selected_subject" \in DOMAIN ss) =>
        ss.selected_subject \in DOMAIN ss.user_data.subjects

====
